---- MODULE Spec2Model ----
(***************************************************************************)
(* State-machine model of src/chunks/page.27005089.js: the user-agent      *)
(* rule tables and matcher, the memoised device-class predicates, the      *)
(* viewport tracker, prepEnvironment and the debounced resize handler.     *)
(*                                                                         *)
(* Strings and regular expressions.  A user-agent string is a sequence of  *)
(* tokens (the text between its "; " separators); the empty sequence is    *)
(* the empty string.  A regular expression is the set of tokens that       *)
(* contain a match of it (hits), plus, for a pattern of the form X.+Y, the *)
(* tokens that contain X (lead) and the tokens that contain Y (tail).      *)
(* Case sensitivity is kept: a token is listed as an exact match or as a   *)
(* match up to case only, and the latter counts under the i flag alone.    *)
(*                                                                         *)
(* The version part of getOperatingSystem's result is not modelled: no     *)
(* predicate reads it, and the cache entry is an object (truthy) whatever  *)
(* it holds.                                                               *)
(***************************************************************************)
EXTENDS Integers, Sequences, FiniteSets, TLC

VARIABLES
  userAgent,      \* const userAgent (line 15)
  maxTouchPoints, \* navigator.maxTouchPoints; NoTouchPoints when the host has none
  win,            \* the host's window, document root and location
  cache,          \* const cache = {} (line 16)
  cachedViewport, \* let cachedViewport (line 512): <<>> is undefined
  classList,      \* html.classList, a set of <<prefix, name>>
  pc,             \* "load" before the top-level prepEnvironment() of line 552
  now,            \* the host's clock, in ms
  timers,         \* the host's pending timeouts, [id, due]
  timeout,        \* debounce's closure variable: 0 is null, else a timer id
  lastResize,     \* history: time of the last resize notification, -1 if none
  reevals,        \* history: runs of `later` since the last notification
  lastEvalAt,     \* history: time of the last run of `later`, -1 if none
  measuredFrom,   \* history: the host window setViewport last measured
  returned,       \* history: per predicate, <<v>> the value its last call returned
  burst,          \* history: notifications in a row less than `wait` ms apart
  lastCall,       \* history: the last viewport reader called and its result
  mList, mUa, mResult  \* the arguments and result of a direct testUserAgent call

vars == <<userAgent, maxTouchPoints, win, cache, cachedViewport, classList, pc,
          now, timers, timeout, lastResize, reevals, lastEvalAt, measuredFrom,
          returned, burst, lastCall, mList, mUa, mResult>>

----------------------------------------------------------------------------
\* Bounds of the model.

MaxUaLen == 2
MaxListLen == 2
MaxTime == 600
MaxTimers == 3
MaxBurst == 3

\* The tokens user agents are built from.
Tokens == {"Mozilla", "iPhone", "Android", "BlackBerry", "IEMobile",
           "Kindle Fire", "KFTT", "Kindle", "webOS", "Linux", "Macintosh"}

RECURSIVE SeqsUpTo(_, _)
SeqsUpTo(S, n) ==
  IF n = 0 THEN {<<>>}
  ELSE LET shorter == SeqsUpTo(S, n - 1)
       IN shorter \cup {Append(s, t) : s \in shorter, t \in S}

UserAgents == SeqsUpTo(Tokens, MaxUaLen)

\* navigator.maxTouchPoints is undefined
NoTouchPoints == -1
TouchCounts == {NoTouchPoints, 0, 1, 5}

----------------------------------------------------------------------------
\* Regular expressions and String.prototype.match / RegExp.prototype.test.

Regex(exact, anycase, i) ==
  [hits |-> IF i THEN exact \cup anycase ELSE exact, lead |-> {}, tail |-> {}]

SetMin(S) == CHOOSE x \in S : \A y \in S : x <= y
SetMax(S) == CHOOSE x \in S : \A y \in S : x >= y

MatchStarts(ua, re) ==
  {i \in 1..Len(ua) : ua[i] \in re.hits}
  \cup {i \in 1..Len(ua) :
          ua[i] \in re.lead /\ \E j \in (i + 1)..Len(ua) : ua[j] \in re.tail}

\* ua.match(re) for a non-global re: <<>> is null, else the leftmost match
StrMatch(ua, re) ==
  LET starts == MatchStarts(ua, re) IN
  IF starts = {} THEN <<>>
  ELSE LET i == SetMin(starts)
           text == IF ua[i] \in re.hits THEN <<ua[i]>>
                   ELSE SubSeq(ua, i, SetMax({j \in (i + 1)..Len(ua) : ua[j] \in re.tail}))
       IN <<[index |-> i, text |-> text]>>

RegexTest(re, ua) == MatchStarts(ua, re) # {}

----------------------------------------------------------------------------
\* The rule tables.

reIos == Regex({"iPhone", "iPad", "iPod"}, {"iphone", "ipad", "ipod"}, TRUE)
reAndroid == Regex({"Android"}, {"android"}, TRUE)
reBlackBerry == Regex({"BlackBerry", "BB10"}, {"Blackberry", "blackberry", "bb10"}, TRUE)
reIEMobile == Regex({"IEMobile"}, {"iemobile"}, TRUE)
reFireOs ==
  [hits |-> {"Kindle Fire", "Silk", "kindle fire", "silk"},
   lead |-> {"Android", "android", "Linux", "linux"},
   tail |-> {"KFTT", "KFTHWI", "kftt"}]
reKindle == Regex({"Kindle", "Kindle Fire"}, {"kindle", "kindle fire"}, TRUE)

commonOperatingSystems ==
  << <<"iOS", reIos>>,
     <<"Android", reAndroid>>,
     <<"BlackBerry OS", reBlackBerry>>,
     <<"Windows Mobile", reIEMobile>>,
     <<"Fire OS", reFireOs>>,
     <<"Amazon OS", reKindle>>,
     <<"Windows 3.11", Regex({"Win16"}, {"win16"}, TRUE)>>,
     <<"Windows 95", Regex({"Windows 95", "Win95", "Windows_95"}, {"windows 95"}, TRUE)>>,
     <<"Windows 98", Regex({"Windows 98", "Win98"}, {"windows 98"}, TRUE)>>,
     <<"Windows 2000", Regex({"Windows NT 5.0", "Windows 2000"}, {"windows nt 5.0"}, TRUE)>>,
     <<"Windows XP", Regex({"Windows NT 5.1", "Windows XP"}, {"windows nt 5.1"}, TRUE)>>,
     <<"Windows Server 2003", Regex({"Windows NT 5.2"}, {"windows nt 5.2"}, TRUE)>>,
     <<"Windows Vista", Regex({"Windows NT 6.0"}, {"windows nt 6.0"}, TRUE)>>,
     <<"Windows 7", Regex({"Windows NT 6.1"}, {"windows nt 6.1"}, TRUE)>>,
     <<"Windows 8", Regex({"Windows NT 6.2"}, {"windows nt 6.2"}, TRUE)>>,
     <<"Windows 8.1", Regex({"Windows NT 6.3"}, {"windows nt 6.3"}, TRUE)>>,
     <<"Windows 10", Regex({"Windows NT 10.0"}, {"windows nt 10.0"}, TRUE)>>,
     <<"Windows ME", Regex({"Windows ME"}, {"windows me"}, TRUE)>>,
     <<"Open BSD", Regex({"OpenBSD"}, {"openbsd"}, TRUE)>>,
     <<"Free BSD", Regex({"FreeBSD"}, {"freebsd"}, TRUE)>>,
     <<"Sun OS", Regex({"SunOS"}, {"sunos"}, TRUE)>>,
     <<"Chrome OS", Regex({"CrOS"}, {"cros"}, TRUE)>>,
     <<"webOS", Regex({"webOS"}, {"webos", "WebOS"}, TRUE)>>,
     <<"Linux", Regex({"Linux", "X11"}, {"linux", "x11"}, TRUE)>>,
     <<"Mac OS", Regex({"Mac_PowerPC", "Macintosh"}, {"macintosh"}, TRUE)>> >>

getUserAgent == userAgent

\* the loop of testUserAgent from index i on: <<>> is the `false` result
RECURSIVE testFrom(_, _, _)
testFrom(list, ua, i) ==
  IF i > Len(list) THEN <<>>
  ELSE LET pattern == list[i][2]
           match == StrMatch(ua, pattern)
       IN IF match # <<>>
          THEN <<[match |-> match[1], string |-> list[i][1]]>>
          ELSE testFrom(list, ua, i + 1)

\* a mutant: the scan keeps the last matching rule
RECURSIVE testFromLast(_, _, _)
testFromLast(list, ua, i) ==
  IF i > Len(list) THEN <<>>
  ELSE LET rest == testFromLast(list, ua, i + 1)
           match == StrMatch(ua, list[i][2])
       IN IF rest # <<>> THEN rest
          ELSE IF match # <<>> THEN <<[match |-> match[1], string |-> list[i][1]]>>
          ELSE <<>>

testUserAgent_lastWins(list, ua) ==
  testFromLast(list, IF ua # <<>> THEN ua ELSE getUserAgent, 1)

\* ua = ua || getUserAgent(): the empty string is falsy
testUserAgent(list, ua) ==
  testFrom(list, IF ua # <<>> THEN ua ELSE getUserAgent, 1)

----------------------------------------------------------------------------
\* The memoised device-class predicates.  Every function takes the cache and
\* gives back the cache it leaves and the value it returns.

CacheKeys == {"getOperatingSystem", "isMobile", "isDesktop", "isIpadOs", "isIos",
              "isIphone", "isAndroid", "isWebOS", "isBlackberry", "isKindle",
              "isKindleFire", "isWindowsMobile", "isMacOs"}

EmptyCache == [k \in CacheKeys |-> <<>>]

R(c, v) == [cache |-> c, val |-> v]

\* !cache.x is false only for an entry that holds true
Truthy(entry) == entry = <<TRUE>>

\* name.indexOf(sub) over the names getOperatingSystem can give
indexOf(name, sub) ==
  IF <<name, sub>> \in {<<"Mac OS", "Mac">>, <<"Fire OS", "Fire OS">>,
                        <<"Amazon OS", "Amazon OS">>}
  THEN 0 ELSE -1

\* cache[key] = v; return cache[key]
Store(c, key, v) == R([c EXCEPT ![key] = <<v>>], v)

\* name || 'unknown', of the destructured result of testUserAgent
osName(found) == IF found = <<>> THEN "unknown" ELSE found[1].string

getOperatingSystem(c) ==
  IF c["getOperatingSystem"] # <<>> THEN R(c, c["getOperatingSystem"][1])
  ELSE Store(c, "getOperatingSystem",
             [name |-> osName(testUserAgent(commonOperatingSystems, <<>>))])

\* if (!cache[key]) { cache[key] = re.test(userAgent) } return cache[key]
regexPredicate(c, key, re) ==
  IF Truthy(c[key]) THEN R(c, TRUE)
  ELSE Store(c, key, RegexTest(re, userAgent))

\* cache[key] = os.indexOf(sub) > -1, os the name getOperatingSystem() gave
storeOsName(os, key, sub) == Store(os.cache, key, indexOf(os.val.name, sub) > -1)

\* if (!cache[key]) { cache[key] = os.indexOf(sub) > -1 } return cache[key]
osNamePredicate(c, key, sub) ==
  IF Truthy(c[key]) THEN R(c, TRUE)
  ELSE storeOsName(getOperatingSystem(c), key, sub)

isIos(c) == regexPredicate(c, "isIos", Regex({"iPhone", "iPad", "iPod"}, {"iphone", "ipad", "ipod"}, FALSE))
isIphone(c) == regexPredicate(c, "isIphone", Regex({"iPhone"}, {"iphone"}, FALSE))
isAndroid(c) == regexPredicate(c, "isAndroid", Regex({"Android"}, {"android"}, FALSE))
isWebOS(c) == regexPredicate(c, "isWebOS", Regex({"webOS"}, {"webos", "WebOS"}, FALSE))
isBlackberry(c) ==
  regexPredicate(c, "isBlackberry",
                 Regex({"Blackberry", "BB10"}, {"BlackBerry", "blackberry", "bb10"}, FALSE))
isWindowsMobile(c) == regexPredicate(c, "isWindowsMobile", Regex({"IEMobile"}, {"iemobile"}, FALSE))

isKindle(c) == osNamePredicate(c, "isKindle", "Amazon OS")
isKindleFire(c) == osNamePredicate(c, "isKindleFire", "Fire OS")
isMacOs(c) == osNamePredicate(c, "isMacOs", "Mac")

\* !!navigator.maxTouchPoints
hasTouchPoints == maxTouchPoints # NoTouchPoints /\ maxTouchPoints # 0

\* a mutant: any touch screen counts
storeIpadOs_anyTouch(mac) == Store(mac.cache, "isIpadOs", mac.val /\ hasTouchPoints)

\* cache.isIpadOs = mac && (!!maxTouchPoints && maxTouchPoints === 5),
\* mac the outcome of isMacOs()
storeIpadOs(mac) ==
  Store(mac.cache, "isIpadOs", mac.val /\ (hasTouchPoints /\ maxTouchPoints = 5))

isIpadOs(c) ==
  IF Truthy(c["isIpadOs"]) THEN R(c, TRUE)
  ELSE storeIpadOs(isMacOs(c))

\* left || right(), r the outcome of the left operand
orIos(r) == IF r.val THEN r ELSE isIos(r.cache)
orIpadOs(r) == IF r.val THEN r ELSE isIpadOs(r.cache)
orKindleFire(r) == IF r.val THEN r ELSE isKindleFire(r.cache)
orKindle(r) == IF r.val THEN r ELSE isKindle(r.cache)
orBlackberry(r) == IF r.val THEN r ELSE isBlackberry(r.cache)
orWindowsMobile(r) == IF r.val THEN r ELSE isWindowsMobile(r.cache)
orWebOS(r) == IF r.val THEN r ELSE isWebOS(r.cache)

\* cache[key] = r.val (or its negation), r the outcome of the right-hand side
storeOutcome(r, key, negate) == Store(r.cache, key, IF negate THEN ~r.val ELSE r.val)

isMobile(c) ==
  IF Truthy(c["isMobile"]) THEN R(c, TRUE)
  ELSE storeOutcome(
         orWebOS(orWindowsMobile(orBlackberry(orKindle(orKindleFire(
           orIpadOs(orIos(isAndroid(c)))))))),
         "isMobile", FALSE)

\* a mutant: desktop decided from the Android test alone
isDesktop_androidOnly(c) ==
  IF Truthy(c["isDesktop"]) THEN R(c, TRUE)
  ELSE storeOutcome(isAndroid(c), "isDesktop", TRUE)

isDesktop(c) ==
  IF Truthy(c["isDesktop"]) THEN R(c, TRUE)
  ELSE storeOutcome(isMobile(c), "isDesktop", TRUE)

----------------------------------------------------------------------------
\* The debounced function of debounce(func, wait, immediate), lines 343-359,
\* on the closure variable `timeout` and the host's timer queue.

wait == 250
immediate == FALSE

\* a handle setTimeout has not handed out to a pending timer
FreshTimerId(ts) == SetMin({i \in 1..(Cardinality(ts) + 1) : \A t \in ts : t.id # i})

\* setTimeout(later, delay) with handle id: the timer queue it leaves
setTimeout(ts, id, delay) == ts \cup {[id |-> id, due |-> now + delay]}

clearTimeout(ts, id) == {t \in ts : t.id # id}

\* timeout = setTimeout(later, wait) on the timer queue ts
armed(ts, callNow) ==
  [timers |-> setTimeout(ts, FreshTimerId(ts), wait), timeout |-> FreshTimerId(ts),
   callNow |-> callNow]

\* a mutant: the pending timer is left in place
debounced_noClear(ts, to) == armed(ts, immediate /\ to = 0)

debounced(ts, to) == armed(clearTimeout(ts, to), immediate /\ to = 0)

----------------------------------------------------------------------------
\* Constants of the page module.

classNamePrefixes == [env |-> "g-page", breakpoint |-> "g-viewport"]

breakpoints ==
  [xxsmall |-> 320, xsmall |-> 480, small |-> 600, medium |-> 740,
   large |-> 1024, xlarge |-> 1150, xxlarge |-> 1440]

\* Object.keys(breakpoints), in insertion order
breakpointNames == <<"xxsmall", "xsmall", "small", "medium", "large", "xlarge", "xxlarge">>

debug == FALSE

----------------------------------------------------------------------------
\* Viewport, aspect and orientation.  The aspect ratio width / height is
\* kept as the pair <<width, height>> and compared by cross-multiplication.

Max(a, b) == IF a >= b THEN a ELSE b

Geometry(w) ==
  [clientWidth |-> w.clientWidth, clientHeight |-> w.clientHeight,
   innerWidth |-> w.innerWidth, innerHeight |-> w.innerHeight]

\* ratio > n / d
RatioGreater(ratio, n, d) ==
  IF ratio[2] = 0 THEN ratio[1] > 0 ELSE ratio[1] * d > n * ratio[2]

\* the viewport measured from window w
measure(w) ==
  <<[width |-> Max(w.clientWidth, w.innerWidth),
     height |-> Max(w.clientHeight, w.innerHeight),
     aspectRatio |-> <<Max(w.clientWidth, w.innerWidth),
                       Max(w.clientHeight, w.innerHeight)>>]>>

\* a mutant: a viewport once cached is not measured again
setViewport_keepCached == IF cachedViewport # <<>> THEN cachedViewport ELSE measure(win)

\* the value setViewport assigns to cachedViewport
setViewport == measure(win)

V(cv, v) == [viewport |-> cv, val |-> v]

\* a mutant: every read measures the window again
getViewport_alwaysMeasure(cv) == V(setViewport, setViewport[1])

getViewport(cv) ==
  IF cv = <<>> THEN V(setViewport, setViewport[1]) ELSE V(cv, cv[1])

\* the reader's value f, g the outcome of the getViewport() it starts with
getAspectRatio(cv) == V(getViewport(cv).viewport, getViewport(cv).val.aspectRatio)
isLandscape(cv) == V(getViewport(cv).viewport, RatioGreater(getAspectRatio(cv).val, 1, 1))
isPortrait(cv) == V(getViewport(cv).viewport, ~isLandscape(cv).val)
isWideScreen(cv) ==
  V(getViewport(cv).viewport, RatioGreater(getAspectRatio(cv).val, breakpoints.xxlarge, 1029))

isSmallScreen(cv) == V(getViewport(cv).viewport, getViewport(cv).val.width <= breakpoints.medium)
isLargeScreen(cv) == V(getViewport(cv).viewport, getViewport(cv).val.width >= breakpoints.xlarge)

\* a mutant: a breakpoint is active only above its width
breakpointEntries_strict(vw) ==
  [i \in 1..Len(breakpointNames) |->
     [width |-> breakpoints[breakpointNames[i]],
      name |-> breakpointNames[i],
      active |-> vw > breakpoints[breakpointNames[i]]]]

\* Object.keys(breakpoints).map(...) for viewport width vw
breakpointEntries(vw) ==
  [i \in 1..Len(breakpointNames) |->
     [width |-> breakpoints[breakpointNames[i]],
      name |-> breakpointNames[i],
      active |-> vw >= breakpoints[breakpointNames[i]]]]

getBreakpoints(cv) ==
  V(getViewport(cv).viewport, breakpointEntries(getViewport(cv).val.width))

----------------------------------------------------------------------------
\* Environment and resolution.

isApp ==
  \/ win.hrefAppHtml > 0
  \/ win.searchNytapp > -1
  \/ StrMatch(userAgent, Regex({"nyt-ios", "nyt_android", "nytios"}, {"NYT-iOS"}, TRUE)) # <<>>
  \/ (StrMatch(userAgent, Regex({"android"}, {"Android"}, TRUE)) # <<>> /\ win.hybrid)

getEnvironment ==
  IF win.hostnameLocalhost > -1 THEN "development"
  ELSE IF win.hostname = "preview.nyt.net" THEN "preview"
  ELSE "production"

\* window.devicePixelRatio || 1.0, in tenths
pixelRatio == IF win.devicePixelRatio = 0 THEN 10 ELSE win.devicePixelRatio

isHighDensity == (win.matchMedia /\ win.mediaHighDensity) \/ pixelRatio > 13

isRetina ==
  ((win.matchMedia /\ win.mediaRetina) \/ pixelRatio >= 20)
  /\ RegexTest(Regex({"iPad", "iPhone", "iPod"}, {"iphone"}, FALSE), userAgent)

\* the keys of getState's result, in order
stateNames ==
  <<"isApp", "isIos", "isAndroid", "isIphone", "isMobile", "isDesktop", "isLandscape",
    "isPortrait", "isWideScreen", "isSmallScreen", "isLargeScreen", "isHighDensity",
    "isRetina">>

\* fnName.toLowerCase()
toLowerCase ==
  [isApp |-> "isapp", isIos |-> "isios", isAndroid |-> "isandroid",
   isIphone |-> "isiphone", isMobile |-> "ismobile", isDesktop |-> "isdesktop",
   isLandscape |-> "islandscape", isPortrait |-> "isportrait",
   isWideScreen |-> "iswidescreen", isSmallScreen |-> "issmallscreen",
   isLargeScreen |-> "islargescreen", isHighDensity |-> "ishighdensity",
   isRetina |-> "isretina"]

\* the properties of getState's result are evaluated in the order they are
\* written; each step takes the outcome of the one before
stateIos(c) == [r |-> isIos(c), val |-> <<>>]
stateAndroid(s) == [r |-> isAndroid(s.r.cache), val |-> <<s.r.val>>]
stateIphone(s) == [r |-> isIphone(s.r.cache), val |-> Append(s.val, s.r.val)]
stateMobile(s) == [r |-> isMobile(s.r.cache), val |-> Append(s.val, s.r.val)]
stateDesktop(s) == [r |-> isDesktop(s.r.cache), val |-> Append(s.val, s.r.val)]
statePredicates(c) == stateDesktop(stateMobile(stateIphone(stateAndroid(stateIos(c)))))

\* the viewport readers of getState; once getViewport() has run, the cached
\* viewport is set and the later readers leave it alone
stateRecord(c, u, cv) ==
  [cache |-> c, viewport |-> getViewport(cv).viewport,
   val |-> [isApp |-> isApp, isIos |-> u[1], isAndroid |-> u[2],
            isIphone |-> u[3], isMobile |-> u[4], isDesktop |-> u[5],
            isLandscape |-> isLandscape(cv).val,
            isPortrait |-> isPortrait(getViewport(cv).viewport).val,
            isWideScreen |-> isWideScreen(getViewport(cv).viewport).val,
            isSmallScreen |-> isSmallScreen(getViewport(cv).viewport).val,
            isLargeScreen |-> isLargeScreen(getViewport(cv).viewport).val,
            isHighDensity |-> isHighDensity, isRetina |-> isRetina]]

stateOf(s, cv) == stateRecord(s.r.cache, Append(s.val, s.r.val), cv)

getState(c, cv) == stateOf(statePredicates(c), cv)

\* classList after add (on[i]) or remove of <<prefix, names[i]>>, each i
Toggle(cl, prefix, names, on) ==
  (cl \ {<<prefix, names[i]>> : i \in {j \in 1..Len(names) : ~on[j]}})
  \cup {<<prefix, names[i]>> : i \in {j \in 1..Len(names) : on[j]}}

\* lines 457-470: the breakpoint classes
breakpointClasses(cl, bps) ==
  Toggle(cl, classNamePrefixes.breakpoint, breakpointNames,
         [i \in 1..Len(breakpointNames) |-> bps[i].active])

\* lines 474-490: the classes of getState's results
stateClasses(cl, testResults) ==
  [cache |-> testResults.cache, viewport |-> testResults.viewport,
   classList |-> Toggle(cl, classNamePrefixes.env,
                        [i \in 1..Len(stateNames) |-> toLowerCase[stateNames[i]]],
                        [i \in 1..Len(stateNames) |-> testResults.val[stateNames[i]]]),
   state |-> testResults.val]

\* prepEnvironment on cache c and class list cl: what it leaves behind
prepEnvironment(c, cl) ==
  stateClasses(breakpointClasses(cl, getBreakpoints(setViewport).val),
               getState(c, setViewport))

----------------------------------------------------------------------------
\* The host: windows the page is shown in, and the rest of the environment.

WindowSizes ==
  { [clientWidth |-> 585, clientHeight |-> 800, innerWidth |-> 600, innerHeight |-> 800],
    [clientWidth |-> 740, clientHeight |-> 600, innerWidth |-> 740, innerHeight |-> 600],
    [clientWidth |-> 1024, clientHeight |-> 1029, innerWidth |-> 980, innerHeight |-> 1029],
    [clientWidth |-> 1135, clientHeight |-> 785, innerWidth |-> 1150, innerHeight |-> 800] }

Window(g) ==
  [clientWidth |-> g.clientWidth, clientHeight |-> g.clientHeight,
   innerWidth |-> g.innerWidth, innerHeight |-> g.innerHeight,
   devicePixelRatio |-> 20, matchMedia |-> TRUE, mediaHighDensity |-> FALSE,
   mediaRetina |-> FALSE, hrefAppHtml |-> -1, searchNytapp |-> -1, hybrid |-> FALSE,
   hostname |-> "www.nytimes.com", hostnameLocalhost |-> -1]

Delays == {50, 100, 250}

----------------------------------------------------------------------------
\* Initial states: the module has been evaluated up to line 551; the
\* top-level prepEnvironment() of line 552 has not run yet.

InitWith(ua, touch, g, start, list, subject) ==
  /\ userAgent = ua
  /\ maxTouchPoints = touch
  /\ win = Window(g)
  /\ cache = EmptyCache
  /\ cachedViewport = <<>>
  /\ classList = {<<classNamePrefixes.env, getEnvironment>>}
  /\ pc = start
  /\ now = 0
  /\ timers = {}
  /\ timeout = 0
  /\ lastResize = -1
  /\ reevals = 0
  /\ lastEvalAt = -1
  /\ burst = 0
  /\ measuredFrom = <<>>
  /\ returned = [k \in CacheKeys |-> <<>>]
  /\ lastCall = [fn |-> "none", val |-> FALSE]
  /\ mList = list
  /\ mUa = subject
  /\ mResult = <<>>

DefaultWindow == CHOOSE g \in WindowSizes : g.innerWidth = 600

hostVars == <<userAgent, maxTouchPoints>>
timeVars == <<now, timers, timeout, lastResize, reevals, lastEvalAt, burst>>
matcherVars == <<mList, mUa, mResult>>

\* Every memoised predicate returns the cache entry it has just read or
\* written.  The values last returned, after the calls `direct` and the
\* calls nested in them have taken the cache from c to c2:
Returns(ret, c, c2, direct) ==
  [k \in CacheKeys |-> IF k \in direct \/ c2[k] # c[k] THEN c2[k] ELSE ret[k]]

statePredicateKeys == {"isIos", "isAndroid", "isIphone", "isMobile", "isDesktop"}

----------------------------------------------------------------------------
\* Actions.

\* what a run of prepEnvironment with outcome p leaves behind
Prepared(p) ==
  /\ cache' = p.cache
  /\ cachedViewport' = p.viewport
  /\ classList' = p.classList
  /\ returned' = Returns(returned, cache, p.cache, statePredicateKeys)

\* line 552: prepEnvironment() at load
Load ==
  /\ pc = "load"
  /\ Prepared(prepEnvironment(cache, classList))
  /\ measuredFrom' = <<Geometry(win)>>
  /\ pc' = "run"
  /\ UNCHANGED <<hostVars, win, timeVars, lastCall, matcherVars>>

\* the window takes size g and the resize listener of line 551 runs
Resize(g) ==
  /\ pc = "run"
  /\ Cardinality(timers) < MaxTimers
  /\ win' = [win EXCEPT !.clientWidth = g.clientWidth, !.clientHeight = g.clientHeight,
                        !.innerWidth = g.innerWidth, !.innerHeight = g.innerHeight]
  /\ timers' = debounced(timers, timeout).timers
  /\ timeout' = debounced(timers, timeout).timeout
  /\ lastResize' = now
  /\ reevals' = 0
  /\ burst' = IF lastResize >= 0 /\ now - lastResize < wait
              THEN (IF burst < MaxBurst THEN burst + 1 ELSE MaxBurst)
              ELSE 1
  /\ UNCHANGED <<hostVars, cache, cachedViewport, classList, pc, now, lastEvalAt,
                 measuredFrom, returned, lastCall, matcherVars>>

\* a timer set by the debounced function comes due: `later` runs
Later(t) ==
  /\ pc = "run"
  /\ t \in timers
  /\ t.due <= now
  /\ timers' = timers \ {t}
  /\ timeout' = 0
  /\ Prepared(prepEnvironment(cache, classList))
  /\ measuredFrom' = <<Geometry(win)>>
  /\ reevals' = reevals + 1
  /\ lastEvalAt' = now
  /\ UNCHANGED <<hostVars, win, pc, now, lastResize, burst, lastCall, matcherVars>>

\* d ms pass; a timer fires when it is due, not later
Tick(d) ==
  /\ pc = "run"
  /\ now + d <= MaxTime
  /\ \A t \in timers : now + d <= t.due
  /\ now' = now + d
  /\ UNCHANGED <<hostVars, win, cache, cachedViewport, classList, pc, timers, timeout,
                 lastResize, reevals, lastEvalAt, burst, measuredFrom, returned,
                 lastCall, matcherVars>>

\* the host reports another touch-point count
SetMaxTouchPoints(n) ==
  /\ pc = "run"
  /\ n # maxTouchPoints
  /\ maxTouchPoints' = n
  /\ UNCHANGED <<userAgent, win, cache, cachedViewport, classList, pc, timeVars,
                 measuredFrom, returned, lastCall, matcherVars>>

\* a call of a memoised predicate, r its outcome on the current cache
CallPredicate(key, r) ==
  /\ pc = "run"
  /\ cache' = r.cache
  /\ returned' = Returns(returned, cache, r.cache, {key})
  /\ UNCHANGED <<hostVars, win, cachedViewport, classList, pc, timeVars, measuredFrom,
                 lastCall, matcherVars>>

CallGetOperatingSystem == CallPredicate("getOperatingSystem", getOperatingSystem(cache))
CallIsMobile == CallPredicate("isMobile", isMobile(cache))
CallIsDesktop == CallPredicate("isDesktop", isDesktop(cache))
CallIsIpadOs == CallPredicate("isIpadOs", isIpadOs(cache))
CallIsIos == CallPredicate("isIos", isIos(cache))
CallIsIphone == CallPredicate("isIphone", isIphone(cache))
CallIsAndroid == CallPredicate("isAndroid", isAndroid(cache))
CallIsWebOS == CallPredicate("isWebOS", isWebOS(cache))
CallIsBlackberry == CallPredicate("isBlackberry", isBlackberry(cache))
CallIsKindle == CallPredicate("isKindle", isKindle(cache))
CallIsKindleFire == CallPredicate("isKindleFire", isKindleFire(cache))
CallIsWindowsMobile == CallPredicate("isWindowsMobile", isWindowsMobile(cache))
CallIsMacOs == CallPredicate("isMacOs", isMacOs(cache))

\* a call of a viewport reader, r its outcome on the cached viewport
CallReader(fn, r) ==
  /\ pc = "run"
  /\ cachedViewport' = r.viewport
  /\ lastCall' = [fn |-> fn, val |-> r.val]
  /\ UNCHANGED <<hostVars, win, cache, classList, pc, timeVars, measuredFrom, returned,
                 matcherVars>>

CallGetViewport == CallReader("getViewport", getViewport(cachedViewport))
CallIsLandscape == CallReader("isLandscape", isLandscape(cachedViewport))
CallIsPortrait == CallReader("isPortrait", isPortrait(cachedViewport))
CallIsWideScreen == CallReader("isWideScreen", isWideScreen(cachedViewport))
CallIsSmallScreen == CallReader("isSmallScreen", isSmallScreen(cachedViewport))
CallIsLargeScreen == CallReader("isLargeScreen", isLargeScreen(cachedViewport))
CallGetBreakpoints == CallReader("getBreakpoints", getBreakpoints(cachedViewport))

StateRead(s) ==
  /\ cache' = s.cache
  /\ cachedViewport' = s.viewport
  /\ returned' = Returns(returned, cache, s.cache, statePredicateKeys)
  /\ lastCall' = [fn |-> "getState", val |-> s.val]

CallGetState ==
  /\ pc = "run"
  /\ StateRead(getState(cache, cachedViewport))
  /\ UNCHANGED <<hostVars, win, classList, pc, timeVars, measuredFrom, matcherVars>>

\* the direct call testUserAgent(mList, mUa)
CallTestUserAgent ==
  /\ pc = "call"
  /\ mResult' = <<testUserAgent(mList, mUa)>>
  /\ pc' = "done"
  /\ UNCHANGED <<hostVars, win, cache, cachedViewport, classList, timeVars,
                 measuredFrom, returned, lastCall, mList, mUa>>

----------------------------------------------------------------------------
\* Specifications.

PredicateCalls ==
  \/ CallGetOperatingSystem \/ CallIsMobile \/ CallIsDesktop \/ CallIsIpadOs
  \/ CallIsIos \/ CallIsIphone \/ CallIsAndroid \/ CallIsWebOS \/ CallIsBlackberry
  \/ CallIsKindle \/ CallIsKindleFire \/ CallIsWindowsMobile \/ CallIsMacOs

ReaderCalls ==
  \/ CallGetViewport \/ CallIsLandscape \/ CallIsPortrait \/ CallIsWideScreen
  \/ CallIsSmallScreen \/ CallIsLargeScreen \/ CallGetBreakpoints \/ CallGetState

\* The device-class predicates on a host whose touch-point count is the same
\* throughout: any user agent, any count, any sequence of calls.
Init ==
  \E ua \in UserAgents, touch \in TouchCounts : InitWith(ua, touch, DefaultWindow, "load", <<>>, <<>>)

Next == Load \/ PredicateCalls

Spec == Init /\ [][Next]_vars

\* The same, on a host whose touch-point count may change between calls.
NextHost == Load \/ PredicateCalls \/ \E n \in TouchCounts : SetMaxTouchPoints(n)

SpecHost == Init /\ [][NextHost]_vars

\* The viewport tracker and the debounced resize handler, time passing.
InitViewport ==
  \E g \in WindowSizes : InitWith(<<"Macintosh">>, 0, g, "load", <<>>, <<>>)

NextViewport ==
  \/ Load
  \/ \E g \in WindowSizes : Resize(g)
  \/ \E t \in timers : Later(t)
  \/ \E d \in Delays : Tick(d)
  \/ ReaderCalls

SpecViewport == InitViewport /\ [][NextViewport]_vars

\* The matcher, called once with any rule list and any subject.
RulePool == {commonOperatingSystems[i] : i \in {1, 2, 5}}
RuleLists == SeqsUpTo(RulePool, MaxListLen)
MatcherUserAgents == {<<>>, <<"iPhone">>, <<"Android", "KFTT">>}

InitMatcher ==
  \E ua \in MatcherUserAgents, list \in RuleLists, subject \in UserAgents :
    InitWith(ua, 0, DefaultWindow, "call", list, subject)

NextMatcher == CallTestUserAgent

SpecMatcher == InitMatcher /\ [][NextMatcher]_vars

----------------------------------------------------------------------------
\* Properties.

\* The operating systems of the rule table that are mobile.
MobileOsNames ==
  {"iOS", "Android", "BlackBerry OS", "Windows Mobile", "Fire OS", "Amazon OS", "webOS"}

\* C1: for every user agent and every touch-point count the host reports,
\* after any sequence of calls of the device-class predicates, isMobile() and
\* isDesktop() are complementary, whichever of the two is called first.
C1_Complementary ==
  /\ isMobile(cache).val # isDesktop(isMobile(cache).cache).val
  /\ isDesktop(cache).val # isMobile(isDesktop(cache).cache).val

\* a Macintosh with five touch points, found mobile after isDesktop was cached
C1_Witness ==
  /\ pc = "run"
  /\ cache["isDesktop"] = <<FALSE>>
  /\ returned["isIpadOs"] = <<TRUE>>
  /\ isMobile(cache).val
  /\ ~isDesktop(cache).val

\* C2: every resize notification cancels the pending re-evaluation, no
\* re-evaluation runs less than 250 ms after a notification, and once the
\* notifications stop prepEnvironment is re-evaluated exactly once, 250 ms
\* after the last of them.
C2_Debounce ==
  /\ Cardinality(timers) <= 1
  /\ \A t \in timers : t.id = timeout /\ t.due = lastResize + 250
  /\ lastResize = -1 => reevals = 0 /\ timers = {}
  /\ lastResize >= 0 =>
       /\ now < lastResize + 250 => reevals = 0
       /\ reevals = 0 => timers # {}
       /\ reevals > 0 => reevals = 1 /\ lastEvalAt = lastResize + 250 /\ timers = {}
       /\ now > lastResize + 250 => reevals = 1

\* three notifications less than 250 ms apart, then one re-evaluation
C2_Witness ==
  /\ burst = 3
  /\ lastResize = 100
  /\ reevals = 1
  /\ lastEvalAt = 350

\* C3: once a device-class predicate or getOperatingSystem has returned a
\* value, every later call of it returns that value, whatever the host then
\* reports.
C3_Stable ==
  [][\A k \in CacheKeys : returned[k] # <<>> => returned'[k] = returned[k]]_vars

\* The window setViewport last measured, and the viewport that gives.
MeasuredWidth == Max(measuredFrom[1].clientWidth, measuredFrom[1].innerWidth)
MeasuredHeight == Max(measuredFrom[1].clientHeight, measuredFrom[1].innerHeight)

\* C4: once a viewport is cached no reader changes it: it changes only when
\* setViewport runs (at load and in the debounced re-evaluation), getViewport()
\* returns it, and while a re-evaluation is pending that is still the
\* measurement made before the notification.
C4_CachedViewport ==
  [][/\ (cachedViewport # <<>> /\ cachedViewport' # cachedViewport)
          => (lastEvalAt' = now /\ reevals' = reevals + 1)
     /\ (cachedViewport # <<>> /\ lastCall'.fn = "getViewport"
           /\ (lastCall.fn # "getViewport" \/ lastCall'.val # lastCall.val))
          => (cachedViewport' = cachedViewport /\ lastCall'.val = cachedViewport[1])
     /\ (timeout' # 0)
          => (getViewport(cachedViewport').val.width = MeasuredWidth'
              /\ getViewport(cachedViewport').val.height = MeasuredHeight')]_vars

\* getViewport() called while a re-evaluation is pending and the window has
\* another width than the one measured
C4_Witness ==
  /\ timeout # 0
  /\ lastCall.fn = "getViewport"
  /\ lastCall.val = cachedViewport[1]
  /\ lastCall.val.width # Max(win.clientWidth, win.innerWidth)

\* C5: after every run of setViewport the viewport readers answer from the
\* viewport just measured.
C5_Fresh ==
  pc = "run" =>
    /\ getViewport(cachedViewport).val.width = MeasuredWidth
    /\ getViewport(cachedViewport).val.height = MeasuredHeight
    /\ isLandscape(cachedViewport).val = (MeasuredWidth > MeasuredHeight)
    /\ isPortrait(cachedViewport).val = (MeasuredWidth <= MeasuredHeight)
    /\ isWideScreen(cachedViewport).val = (MeasuredWidth * 1029 > 1440 * MeasuredHeight)
    /\ isSmallScreen(cachedViewport).val = (MeasuredWidth <= 740)
    /\ isLargeScreen(cachedViewport).val = (MeasuredWidth >= 1150)
    /\ \A i \in 1..Len(breakpointNames) :
         getBreakpoints(cachedViewport).val[i].active
           = (MeasuredWidth >= breakpoints[breakpointNames[i]])

\* isSmallScreen() answered true before a re-measurement and answers false
\* after it
C5_Witness ==
  /\ pc = "run"
  /\ reevals = 1
  /\ lastCall.fn = "isSmallScreen"
  /\ lastCall.val
  /\ ~isSmallScreen(cachedViewport).val

\* The rules of a list that match a subject, and what the lowest of them gives.
MatchingRules(list, ua) == {i \in 1..Len(list) : StrMatch(ua, list[i][2]) # <<>>}

FirstMatch(list, ua) ==
  IF MatchingRules(list, ua) = {} THEN <<>>
  ELSE <<[match |-> StrMatch(ua, list[SetMin(MatchingRules(list, ua))][2])[1],
          string |-> list[SetMin(MatchingRules(list, ua))][1]]>>

C7_FireOsFirst ==
  (pc = "run" /\ RegexTest(reFireOs, userAgent) /\ RegexTest(reAndroid, userAgent))
    => (getOperatingSystem(cache).val.name = "Fire OS" /\ isKindleFire(cache).val)

\* The entry of getBreakpoints() with the given name is active.
Active(name) ==
  \E i \in 1..Len(breakpointNames) :
    /\ getBreakpoints(cachedViewport).val[i].name = name
    /\ getBreakpoints(cachedViewport).val[i].active

Viewport600x800 ==
  /\ cachedViewport # <<>>
  /\ cachedViewport[1].width = 600
  /\ cachedViewport[1].height = 800

\* C8, as claimed: with a measured viewport of 600 by 800 the width is the
\* medium breakpoint: small, not large, "medium" active, "large" not.
C8_MediumAt600 ==
  Viewport600x800 =>
    /\ breakpoints.medium = 600
    /\ isSmallScreen(cachedViewport).val
    /\ ~isLargeScreen(cachedViewport).val
    /\ Active("medium")
    /\ ~Active("large")

\* C8, amended: with a measured viewport of 600 by 800 the width is the small
\* breakpoint: small, not large, "small" active, "medium" and "large" not.
C8_SmallAt600 ==
  Viewport600x800 =>
    /\ breakpoints.small = 600
    /\ isSmallScreen(cachedViewport).val
    /\ ~isLargeScreen(cachedViewport).val
    /\ Active("small")
    /\ ~Active("medium")
    /\ ~Active("large")

\* getBreakpoints() called on the 600 by 800 viewport
C8_Witness ==
  /\ Viewport600x800
  /\ lastCall.fn = "getBreakpoints"
  /\ lastCall.val[3].active
  /\ ~lastCall.val[4].active

\* C9: whenever getOperatingSystem() names a mobile operating system of the
\* rule table, isMobile() is true and isDesktop() is false.
C9_MobileOsIsMobile ==
  (pc = "run" /\ getOperatingSystem(cache).val.name \in MobileOsNames)
    => (isMobile(cache).val /\ ~isDesktop(cache).val)

\* The name getOperatingSystem() gives contains "Mac".
NamesMac == indexOf(getOperatingSystem(cache).val.name, "Mac") > -1

\* C10: isIpadOs() is true exactly when the operating system's name contains
\* "Mac" and the touch-point count is 5; on a Macintosh isMobile() is true
\* and isDesktop() false with a count of 5, and the reverse with 0, another
\* count or none.
C10_IpadOs ==
  /\ isIpadOs(cache).val = (NamesMac /\ maxTouchPoints = 5)
  /\ NamesMac =>
       /\ isMobile(cache).val = (maxTouchPoints = 5)
       /\ isDesktop(cache).val = (maxTouchPoints # 5)

\* isIpadOs() has been called on a Macintosh with five touch points
C10_Witness ==
  /\ pc = "run"
  /\ NamesMac
  /\ maxTouchPoints = 5
  /\ returned["isIpadOs"] = <<TRUE>>
  /\ returned["isMacOs"] = <<TRUE>>
  /\ isMobile(cache).val

====
